---- MODULE Spec2Model ----
(***************************************************************************)
(* Tourist-safety tracking backend (SIH-2025/backend).                     *)
(*                                                                         *)
(* The module models these parts of the backend:                           *)
(*   - GeofencingService (services/geofencingService.js): the zone         *)
(*     registry, the point-in-zone evaluation, the alert history;          *)
(*   - SocketService (services/socketService.js): the position:update      *)
(*     handler with its rate limiter, hot-cache write, history write,      *)
(*     geofence evaluation and broadcast; the sessions, watch:start and    *)
(*     watch:stop;                                                         *)
(*   - routes/positionRoutes.js: POST /api/position and                    *)
(*     GET /api/position/live behind their rate limiter;                   *)
(*   - routes/geofencingRoutes.js: the zone management requests behind     *)
(*     their rate limiter and the role test;                               *)
(*   - controllers/sosController.js: the SOS documents and the status of   *)
(*     the tourist profiles;                                               *)
(*   - the startup of the process (SocketService.initializeGeofencing and  *)
(*     GeofencingService.loadZonesFromRedis).                              *)
(*                                                                         *)
(* Coordinates are integers in units of 1e-4 degree (28.6142 is 286142),   *)
(* times are integers in milliseconds.                                     *)
(***************************************************************************)
EXTENDS Integers, Sequences, FiniteSets, TLC

VARIABLES
    now,                \* the server clock, Date.now()
    redisConnected,     \* config/redis.js: redisConnected
    postgresAvailable,  \* whether sequelize is usable and the insert succeeds
    restrictedZones,    \* GeofencingService.restrictedZones
    safeZones,          \* GeofencingService.safeZones
    alertHistory,       \* GeofencingService.alertHistory
    touristZoneStates,  \* GeofencingService.touristZoneStates (Null: no entry)
    zoneCounter,        \* number of zone ids handed out so far
    alertCounter,       \* number of alert ids handed out so far
    rateLimits,         \* SocketService.rateLimits (Null: no entry)
    livePositions,      \* Redis hash live_positions (Null: no field)
    privacyPreferences, \* Redis hash privacy_preferences (Null: no field)
    zonesSnapshot,      \* Redis key geofencing_zones (Null: not set)
    locationHistory,    \* rows of the location_history table, in insert order
    connected,          \* the Socket.IO sessions that are connected
    rooms,              \* the rooms each session has joined
    inflight,           \* position:update handlers suspended on their I/O
    positionHits,       \* express-rate-limit hit count of /api/position
    geofencingHits,     \* express-rate-limit hit count of /api/geofencing
    sosAlerts,          \* the documents of the MongoDB collection of SOS
    sosCounter,         \* number of SOS documents created so far
    touristStatus,      \* Tourist.status of each tourist profile (MongoDB)
    pendingLoad,        \* loadZonesFromRedis calls waiting for their get
    emitted,            \* the socket messages the last operation emitted
    reply               \* the last operation and what it returned

vars == <<now, redisConnected, postgresAvailable, restrictedZones, safeZones,
          alertHistory, touristZoneStates, zoneCounter, alertCounter,
          rateLimits, livePositions, privacyPreferences, zonesSnapshot,
          locationHistory, connected, rooms, inflight, positionHits,
          geofencingHits, sosAlerts, sosCounter, touristStatus, pendingLoad,
          emitted, reply>>

----------------------------------------------------------------------------
(* Bounds of the model and program constants.                              *)

\* The clock starts here and never runs past MaxTime.
StartTime == 1000
MaxTime == 6000
\* At most this many zones are ever created.
MaxZones == 3
\* At most this many alerts are ever generated.
MaxAlerts == 3
\* Capacity of the alert history; the code keeps 1000 (geofencingService.js
\* line 277), the model keeps AlertHistoryCap so that overflow is reachable.
AlertHistoryCap == 2
\* At most this many SOS documents are ever created.
MaxSos == 3
\* At most this many loadZonesFromRedis calls wait for their get at a time.
MaxPendingLoads == 1
\* SocketService.checkRateLimit: minimum distance of two accepted updates.
RateLimitMs == 5000
\* positionRateLimit of middleware/security.js: 20 requests per 60 s.
PositionBudget == 20
PositionWindowMs == 60000

ClockSteps == {2500, 5000}

\* null / a missing map entry where a record is expected.
Null == [null |-> TRUE]
\* undefined where a number is expected: a value outside every coordinate,
\* identifier and time of the model.
Undefined == 0 - 1000000
\* A missing alertLevel option (falsy, like '').
NoLevel == ""

Users == {"t1", "t2"}

\* The Socket.IO sessions that watch: one of an authority, one of a
\* tourist (socketAuth attaches the role of the user to the socket).
Sessions == {"a1", "w1"}
SessionRole(s) == IF s = "a1" THEN "authority" ELSE "tourist"
\* socket.userId: the tourist session is the one of tourist t2.
SessionUser(s) == IF s = "a1" THEN "a1" ELSE "t2"
UserName(u) == IF u = "t1" THEN "Asha" ELSE "Ben"

----------------------------------------------------------------------------
(* JavaScript helpers.                                                     *)

\* !x for the values the handlers test: undefined and 0 are falsy.
Falsy(x) == x = Undefined \/ x = 0

\* parseFloat(x) || 0
NumberOrZero(x) == IF x = Undefined THEN 0 ELSE x

IsNumber(x) == x # Undefined

\* Math.round(x * 100) / 100 on a coordinate in units of 1e-4 degree:
\* the nearest multiple of 100, halves rounded up.
RoundTwoDecimals(x) == ((x + 50) \div 100) * 100

RECURSIVE SeqToSet(_)
SeqToSet(s) == IF s = <<>> THEN {} ELSE {Head(s)} \cup SeqToSet(Tail(s))

\* Array.prototype.slice(-n)
SliceLast(s, n) == IF Len(s) <= n THEN s ELSE SubSeq(s, Len(s) - n + 1, Len(s))

\* Array.prototype.slice(0, n)
SliceFirst(s, n) == IF Len(s) <= n THEN s ELSE SubSeq(s, 1, n)

----------------------------------------------------------------------------
(* Geometry (the calls into @turf/turf).                                   *)

\* One edge (a, b) of a ring against the point pt = <<x, y>>.
OnSegment(pt, a, b) ==
    /\ pt[2] * (a[1] - b[1]) + a[2] * (b[1] - pt[1]) + b[2] * (pt[1] - a[1]) = 0
    /\ (a[1] - pt[1]) * (b[1] - pt[1]) <= 0
    /\ (a[2] - pt[2]) * (b[2] - pt[2]) <= 0

\* The ray from pt to +x crosses the edge (a, b):
\* (a.y > y) # (b.y > y) and x < (b.x - a.x) * (y - a.y) / (b.y - a.y) + a.x,
\* with the division cleared.
RayCrosses(pt, a, b) ==
    /\ (a[2] > pt[2]) # (b[2] > pt[2])
    /\ IF b[2] > a[2]
          THEN (pt[1] - a[1]) * (b[2] - a[2]) < (b[1] - a[1]) * (pt[2] - a[2])
          ELSE (pt[1] - a[1]) * (b[2] - a[2]) > (b[1] - a[1]) * (pt[2] - a[2])

\* turf.booleanPointInPolygon(point, polygon) for a polygon of one closed
\* ring: a point on the boundary is inside, otherwise the crossing parity.
booleanPointInPolygon(pt, ring) ==
    LET n == Len(ring) - 1
        edges == 1..n
    IN  \/ \E i \in edges : OnSegment(pt, ring[i], ring[i + 1])
        \/ Cardinality({i \in edges : RayCrosses(pt, ring[i], ring[i + 1])}) % 2 = 1

\* Orientation of c against the directed line a -> b: 1, -1 or 0.
Orient(a, b, c) ==
    LET d == (b[1] - a[1]) * (c[2] - a[2]) - (b[2] - a[2]) * (c[1] - a[1])
    IN  IF d > 0 THEN 1 ELSE IF d < 0 THEN -1 ELSE 0

\* The segments (a, b) and (c, d) cross in a point interior to both.
ProperlyIntersect(a, b, c, d) ==
    /\ Orient(a, b, c) * Orient(a, b, d) < 0
    /\ Orient(c, d, a) * Orient(c, d, b) < 0

\* turf.booleanValid(polygon) for one closed ring: no two edges cross.
booleanValid(ring) ==
    LET n == Len(ring) - 1
    IN  \A i, j \in 1..n :
            i < j => ~ProperlyIntersect(ring[i], ring[i + 1], ring[j], ring[j + 1])

\* turf.circle(center, radius, {units: 'meters'}).geometry.coordinates[0],
\* polygonized with four vertices (north, west, south, east, north) instead
\* of turf's 64: 1000 m is 90 units of latitude and 102 units of longitude
\* at the latitude of the sample zones.
circle(center, radius) ==
    LET dLat == (radius * 90) \div 1000
        dLng == (radius * 102) \div 1000
    IN  << <<center[1], center[2] + dLat>>, <<center[1] - dLng, center[2]>>,
           <<center[1], center[2] - dLat>>, <<center[1] + dLng, center[2]>>,
           <<center[1], center[2] + dLat>> >>

----------------------------------------------------------------------------
(* GeofencingService: the zone registry.                                   *)

\* The sample zones of SocketService.initializeGeofencing.
DelhiRestrictedArea ==
    << <<772090, 286139>>, <<772090, 286149>>, <<772100, 286149>>,
       <<772100, 286139>>, <<772090, 286139>> >>
DelhiSafeCenter == <<772090, 286139>>
DelhiSafeRadius == 1000

\* Polygons offered to the add operations: a valid closed ring, the same
\* ring left open, a ring of three positions and a self-intersecting ring.
OuterRing ==
    << <<772400, 286400>>, <<772400, 286600>>, <<772600, 286600>>,
       <<772600, 286400>>, <<772400, 286400>> >>
OpenRing == SubSeq(OuterRing, 1, 4)
ShortRing == SubSeq(OuterRing, 1, 3)
BowTieRing ==
    << <<772400, 286400>>, <<772600, 286600>>, <<772400, 286600>>,
       <<772600, 286400>>, <<772400, 286400>> >>
PolygonInputs == {OuterRing, OpenRing, ShortRing, BowTieRing}

ZoneNames == {"Zone A"}
OptionInputs == {[alertLevel |-> NoLevel]}

\* Lines 29-32 and 78-81: a ring whose ends differ is closed by the service.
CloseRing(coordinates) ==
    IF coordinates[1] # coordinates[Len(coordinates)]
        THEN Append(coordinates, coordinates[1])
        ELSE coordinates

\* Lines 25-39 and 74-87: the add operations throw on these inputs.
AddZoneThrows(coordinates) ==
    \/ Len(coordinates) < 4
    \/ ~booleanValid(CloseRing(coordinates))

\* Lines 41-52 and 89-100: the zone object (createdAt and description, which
\* nothing reads, are left out).
NewZone(id, name, coordinates, type, options) ==
    [id |-> id,
     name |-> name,
     coordinates |-> CloseRing(coordinates),
     type |-> type,
     alertLevel |-> IF options.alertLevel # NoLevel THEN options.alertLevel
                    ELSE IF type = "restricted" THEN "high" ELSE "low",
     isActive |-> TRUE]

\* saveZonesToRedis: the snapshot written when Redis is connected.
SavedSnapshot(restricted, safe) ==
    IF redisConnected
        THEN [restricted |-> restricted, safe |-> safe]
        ELSE zonesSnapshot

AllZones == restrictedZones \o safeZones

\* getZoneById: the first zone of [...restrictedZones, ...safeZones] with
\* the id, or Null.
getZoneById(zoneId) ==
    LET hits == SelectSeq(AllZones, LAMBDA z : z.id = zoneId)
    IN  IF hits = <<>> THEN Null ELSE Head(hits)

\* checkRestrictedZones / checkSafeZones: the active zones of the list that
\* contain the point, in list order.
ZonesContaining(zones, lat, lng) ==
    SelectSeq(zones, LAMBDA z :
        z.isActive /\ booleanPointInPolygon(<<lng, lat>>, z.coordinates))

checkRestrictedZones(lat, lng) == ZonesContaining(restrictedZones, lat, lng)
checkSafeZones(lat, lng) == ZonesContaining(safeZones, lat, lng)

\* turf.point([lng, lat]) throws unless both coordinates are numbers.
PointThrows(lat, lng) == ~IsNumber(lat) \/ ~IsNumber(lng)

----------------------------------------------------------------------------
(* GeofencingService: evaluation of a position and the alert history.      *)

ZoneIds(zones) == [i \in 1..Len(zones) |-> zones[i].id]

\* generateAlert, lines 274-279: push, then keep the last AlertHistoryCap.
PushAlert(history, alert) ==
    LET pushed == Append(history, alert)
    IN  IF Len(pushed) > AlertHistoryCap
            THEN SliceLast(pushed, AlertHistoryCap)
            ELSE pushed

RECURSIVE PushAlerts(_, _)
PushAlerts(history, alerts) ==
    IF alerts = <<>> THEN history
    ELSE PushAlerts(PushAlert(history, Head(alerts)), Tail(alerts))

\* generateAlert, lines 267-272: the alert object. The id is unique; the
\* model numbers the alerts in the order they are generated.
NewAlert(n, type, userId, lat, lng, zoneId, alertLevel) ==
    [id |-> n, type |-> type, timestamp |-> now, userId |-> userId,
     userName |-> UserName(userId), lat |-> lat, lng |-> lng,
     zoneId |-> zoneId, alertLevel |-> alertLevel]

\* Lines 219-234: one geofence_breach per restricted zone containing the fix.
BreachAlerts(userId, lat, lng, zonesIn) ==
    [i \in 1..Len(zonesIn) |->
        NewAlert(alertCounter + i, "geofence_breach", userId, lat, lng,
                 zonesIn[i].id, zonesIn[i].alertLevel)]

\* A variant of the exit test that forgets the recorded state: every fix
\* outside the safe zones counts as an exit.
LeftSafeZoneStateless(previousState, isInSafeZone) == ~isInSafeZone

\* Line 238: the tourist left the safe zones.
LeftSafeZone(previousState, isInSafeZone) ==
    /\ previousState # Null
    /\ previousState.isInSafeZone
    /\ ~isInSafeZone

\* checkGeofencing(position), lines 192-258: the returned result, its alerts
\* and whether the evaluation ran to the end (completed) or was cut short by
\* the exception of turf.point and returned the initial result (line 256).
checkGeofencing(userId, lat, lng) ==
    LET completed == ~PointThrows(lat, lng)
        inRestricted == IF completed THEN checkRestrictedZones(lat, lng) ELSE <<>>
        inSafe == IF completed THEN checkSafeZones(lat, lng) ELSE <<>>
        breaches == BreachAlerts(userId, lat, lng, inRestricted)
        exits == IF completed /\ LeftSafeZone(touristZoneStates[userId], inSafe # <<>>)
                    THEN << NewAlert(alertCounter + Len(breaches) + 1, "safe_zone_exit",
                                     userId, lat, lng, Undefined, "medium") >>
                    ELSE <<>>
    IN  [completed |-> completed,
         userId |-> userId,
         lat |-> lat,
         lng |-> lng,
         restrictedZones |-> ZoneIds(inRestricted),
         safeZones |-> ZoneIds(inSafe),
         alerts |-> breaches \o exits,
         isInRestrictedZone |-> inRestricted # <<>>,
         isInSafeZone |-> inSafe # <<>>]

\* The zone state kept for the tourist (line 251): the result, without its
\* alerts; zones are held by id.
ZoneStateOf(result) ==
    [lat |-> result.lat, lng |-> result.lng,
     restrictedZones |-> result.restrictedZones,
     safeZones |-> result.safeZones,
     isInRestrictedZone |-> result.isInRestrictedZone,
     isInSafeZone |-> result.isInSafeZone]

\* The effect of checkGeofencing on the service: the alerts are pushed in
\* order and the tourist's zone state is replaced, unless the evaluation
\* was cut short.
ApplyGeofencing(result) ==
    /\ alertHistory' = PushAlerts(alertHistory, result.alerts)
    /\ alertCounter' = alertCounter + Len(result.alerts)
    /\ touristZoneStates' =
          IF result.completed
              THEN [touristZoneStates EXCEPT ![result.userId] = ZoneStateOf(result)]
              ELSE touristZoneStates

\* Array.prototype.sort by descending timestamp (stable): insertion of each
\* element after the elements that are not older.
RECURSIVE InsertByTimestamp(_, _)
InsertByTimestamp(sorted, alert) ==
    IF sorted = <<>> THEN <<alert>>
    ELSE IF Head(sorted).timestamp >= alert.timestamp
        THEN <<Head(sorted)>> \o InsertByTimestamp(Tail(sorted), alert)
        ELSE <<alert>> \o sorted

RECURSIVE SortNewestFirst(_)
SortNewestFirst(alerts) ==
    IF alerts = <<>> THEN <<>>
    ELSE InsertByTimestamp(SortNewestFirst(SubSeq(alerts, 1, Len(alerts) - 1)),
                           alerts[Len(alerts)])

----------------------------------------------------------------------------
(* The state after new SocketService(io): config/redis.js has only started *)
(* to connect, so loadZonesFromRedis finds the client not connected and    *)
(* initializeGeofencing adds its two sample zones.                         *)

SampleRestrictedZone ==
    NewZone(1, "Delhi Restricted Area", DelhiRestrictedArea, "restricted",
            [alertLevel |-> "high"])
SampleSafeZone ==
    NewZone(2, "Delhi Safe Zone", circle(DelhiSafeCenter, DelhiSafeRadius), "safe",
            [alertLevel |-> "low"])

Init ==
    /\ now = StartTime
    /\ redisConnected = FALSE
    /\ postgresAvailable = TRUE
    /\ restrictedZones = <<SampleRestrictedZone>>
    /\ safeZones = <<SampleSafeZone>>
    /\ alertHistory = <<>>
    /\ touristZoneStates = [u \in Users |-> Null]
    /\ zoneCounter = 2
    /\ alertCounter = 0
    /\ rateLimits = [u \in Users |-> 0]
    /\ livePositions = [u \in Users |-> Null]
    /\ privacyPreferences = [u \in Users |-> Null]
    /\ zonesSnapshot = Null
    /\ locationHistory = <<>>
    /\ connected = {}
    /\ rooms = [s \in Sessions |-> {}]
    /\ inflight = {}
    /\ positionHits = 0
    /\ geofencingHits = 0
    /\ sosAlerts = <<>>
    /\ sosCounter = 0
    /\ touristStatus = [u \in Users |-> "safe"]
    /\ pendingLoad = <<>>
    /\ emitted = <<>>
    /\ reply = [op |-> "init"]

geoVars == <<restrictedZones, safeZones, alertHistory, touristZoneStates,
             zoneCounter, alertCounter, zonesSnapshot>>
ingestVars == <<rateLimits, livePositions, privacyPreferences, locationHistory>>
depVars == <<redisConnected, postgresAvailable>>
adminVars == <<geofencingHits, sosAlerts, sosCounter, touristStatus, pendingLoad>>
sessionVars == <<connected, rooms, inflight, positionHits, adminVars>>

----------------------------------------------------------------------------
(* The clock and the dependencies.                                         *)

Tick(d) ==
    /\ now + d <= MaxTime
    /\ now' = now + d
    /\ emitted' = <<>>
    /\ reply' = [op |-> "tick"]
    /\ UNCHANGED <<sessionVars, geoVars, ingestVars, depVars>>

\* config/redis.js, lines 34-48: the 'connect' and 'end' events.
RedisConnectionChange ==
    /\ redisConnected' = ~redisConnected
    /\ emitted' = <<>>
    /\ reply' = [op |-> "redis"]
    /\ UNCHANGED <<sessionVars, now, postgresAvailable, geoVars, ingestVars>>

\* config/redis.js, lines 34-37: the 'connect' event alone.
RedisConnect ==
    /\ ~redisConnected
    /\ RedisConnectionChange

\* PostgreSQL goes away or comes back.
PostgresChange ==
    /\ postgresAvailable' = ~postgresAvailable
    /\ emitted' = <<>>
    /\ reply' = [op |-> "postgres"]
    /\ UNCHANGED <<sessionVars, now, redisConnected, geoVars, ingestVars>>

----------------------------------------------------------------------------
(* GeofencingService operations.                                           *)

\* The shared body of addRestrictedZone (22-63) and addSafeZone (71-111).
\* status is what the routes POST /zones/restricted, /safe and /circular
\* answer around the call: 201 with the zone, 500 from their catch.
AddZone(op, name, coordinates, type, options) ==
    /\ zoneCounter < MaxZones
    /\ emitted' = <<>>
    /\ \/ /\ AddZoneThrows(coordinates)
          /\ reply' = [op |-> op, outcome |-> "threw", zoneId |-> Undefined,
                       status |-> 500]
          /\ UNCHANGED <<sessionVars, now, geoVars, ingestVars, depVars>>
       \/ /\ ~AddZoneThrows(coordinates)
          /\ LET zone == NewZone(zoneCounter + 1, name, coordinates, type, options)
                 restricted == IF type = "restricted"
                                  THEN Append(restrictedZones, zone) ELSE restrictedZones
                 safe == IF type = "safe" THEN Append(safeZones, zone) ELSE safeZones
             IN  /\ restrictedZones' = restricted
                 /\ safeZones' = safe
                 /\ zonesSnapshot' = SavedSnapshot(restricted, safe)
                 /\ zoneCounter' = zoneCounter + 1
                 /\ reply' = [op |-> op, outcome |-> "returned", zoneId |-> zone.id,
                              status |-> 201]
          /\ UNCHANGED <<sessionVars, now, alertHistory, touristZoneStates,
                         alertCounter,
                         ingestVars, depVars>>

addRestrictedZone(name, coordinates, options) ==
    AddZone("addRestrictedZone", name, coordinates, "restricted", options)

addSafeZone(name, coordinates, options) ==
    AddZone("addSafeZone", name, coordinates, "safe", options)

\* addCircularZone, lines 121-135.
addCircularZone(name, center, radius, type, options) ==
    AddZone("addCircularZone", name, circle(center, radius),
            IF type = "restricted" THEN "restricted" ELSE "safe", options)

\* GeofencingService.checkGeofencing called with a position that carries
\* lat and lng.
CheckGeofencing(userId, point) ==
    \E result \in {checkGeofencing(userId, point[1], point[2])} :
        /\ alertCounter + Len(result.alerts) <= MaxAlerts
        /\ ApplyGeofencing(result)
        /\ emitted' = <<>>
        /\ reply' = [op |-> "checkGeofencing", result |-> result,
                     previousState |-> touristZoneStates[userId]]
        /\ UNCHANGED <<sessionVars, now, restrictedZones, safeZones,
                       zoneCounter, zonesSnapshot,
                       ingestVars, depVars>>

\* getRecentAlerts(limit), lines 409-413: sort() sorts alertHistory itself.
getRecentAlerts(limit) ==
    /\ alertHistory' = SortNewestFirst(alertHistory)
    /\ emitted' = <<>>
    /\ reply' = [op |-> "getRecentAlerts", limit |-> limit,
                 alerts |-> SliceFirst(SortNewestFirst(alertHistory), limit)]
    /\ UNCHANGED <<sessionVars, now, restrictedZones, safeZones,
                   touristZoneStates, zoneCounter,
                   alertCounter, zonesSnapshot, ingestVars, depVars>>

\* Object.assign(zone, updates) on the zone with the id, wherever it is held.
AssignZone(zones, zoneId, updates) ==
    [i \in 1..Len(zones) |->
        IF zones[i].id = zoneId
            THEN [f \in DOMAIN zones[i] |->
                    IF f \in DOMAIN updates THEN updates[f] ELSE zones[i][f]]
            ELSE zones[i]]

\* updateZone(zoneId, updates), lines 333-342.
updateZone(zoneId, updates) ==
    /\ emitted' = <<>>
    /\ \/ /\ getZoneById(zoneId) = Null
          /\ reply' = [op |-> "updateZone", outcome |-> "null", zoneId |-> zoneId]
          /\ UNCHANGED <<sessionVars, now, geoVars, ingestVars, depVars>>
       \/ /\ getZoneById(zoneId) # Null
          /\ LET restricted == AssignZone(restrictedZones, zoneId, updates)
                 safe == AssignZone(safeZones, zoneId, updates)
             IN  /\ restrictedZones' = restricted
                 /\ safeZones' = safe
                 /\ zonesSnapshot' = SavedSnapshot(restricted, safe)
          /\ reply' = [op |-> "updateZone", outcome |-> "returned", zoneId |-> zoneId]
          /\ UNCHANGED <<sessionVars, now, alertHistory, touristZoneStates,
                         zoneCounter,
                         alertCounter, ingestVars, depVars>>

\* deleteZone(zoneId), lines 349-362.
deleteZone(zoneId) ==
    /\ emitted' = <<>>
    /\ \/ /\ getZoneById(zoneId) = Null
          /\ reply' = [op |-> "deleteZone", outcome |-> "false", zoneId |-> zoneId]
          /\ UNCHANGED <<sessionVars, now, geoVars, ingestVars, depVars>>
       \/ /\ getZoneById(zoneId) # Null
          /\ LET zone == getZoneById(zoneId)
                 restricted == IF zone.type = "restricted"
                                  THEN SelectSeq(restrictedZones, LAMBDA z : z.id # zoneId)
                                  ELSE restrictedZones
                 safe == IF zone.type = "restricted"
                            THEN safeZones
                            ELSE SelectSeq(safeZones, LAMBDA z : z.id # zoneId)
             IN  /\ restrictedZones' = restricted
                 /\ safeZones' = safe
                 /\ zonesSnapshot' = SavedSnapshot(restricted, safe)
          /\ reply' = [op |-> "deleteZone", outcome |-> "true", zoneId |-> zoneId]
          /\ UNCHANGED <<sessionVars, now, alertHistory, touristZoneStates,
                         zoneCounter,
                         alertCounter, ingestVars, depVars>>

\* Inputs of the service operations.
\* Points <<lat, lng>>: one inside both sample zones, one outside both and
\* inside OuterRing.
PointInputs == {<<286142, 772095>>, <<286500, 772500>>}
LimitInputs == {2}
\* Patches of updateZone: one that deactivates the zone, one that names
\* another variant.
UpdateInputs == {[isActive |-> FALSE], [type |-> "safe"]}
ZoneIdInputs == 1..(MaxZones + 1)

\* The service under evaluations, reads of the alerts and a growing set of
\* safe zones. The service reads the clock only to stamp alerts, so the
\* clock moves in one step size; the rings the service refuses are left to
\* ZoneRegistrySpec.
GeofencingNext ==
    \/ Tick(RateLimitMs)
    \/ \E n \in ZoneNames, o \in OptionInputs : addSafeZone(n, OuterRing, o)
    \/ \E u \in Users, p \in PointInputs : CheckGeofencing(u, p)
    \/ \E l \in LimitInputs : getRecentAlerts(l)

GeofencingSpec == Init /\ [][GeofencingNext]_vars

\* The service under evaluations while zones are deleted.
DeletionNext ==
    \/ Tick(RateLimitMs)
    \/ \E u \in Users, p \in PointInputs : CheckGeofencing(u, p)
    \/ \E z \in ZoneIdInputs : deleteZone(z)

DeletionSpec == Init /\ [][DeletionNext]_vars

\* The zone registry under every management operation.
ZoneRegistryNext ==
    \/ \E n \in ZoneNames, c \in PolygonInputs, o \in OptionInputs :
          addRestrictedZone(n, c, o)
    \/ \E n \in ZoneNames, c \in PolygonInputs, o \in OptionInputs :
          addSafeZone(n, c, o)
    \/ \E n \in ZoneNames, t \in {"restricted", "safe"}, o \in OptionInputs :
          addCircularZone(n, DelhiSafeCenter, DelhiSafeRadius, t, o)
    \/ \E z \in ZoneIdInputs, up \in UpdateInputs : updateZone(z, up)
    \/ \E z \in ZoneIdInputs : deleteZone(z)
    \/ RedisConnectionChange

ZoneRegistrySpec == Init /\ [][ZoneRegistryNext]_vars

\* The service under additions, updates and deletions of zones with
\* evaluations of one tourist in between.
LifecycleNext ==
    \/ \E n \in ZoneNames, o \in OptionInputs : addRestrictedZone(n, OuterRing, o)
    \/ \E z \in ZoneIdInputs, up \in UpdateInputs : updateZone(z, up)
    \/ \E z \in ZoneIdInputs : deleteZone(z)
    \/ \E p \in PointInputs : CheckGeofencing("t1", p)

LifecycleSpec == Init /\ [][LifecycleNext]_vars

----------------------------------------------------------------------------
(* PrivacyService: the consent record.                                     *)

\* storePrivacyPreferences, lines 21-34: the stored record. anonymization
\* is "preferences.anonymization || true".
PrivacyData(preferences) ==
    [locationSharing |-> preferences.locationSharing,
     anonymization |-> TRUE,
     consentGiven |-> preferences.consentGiven]

\* storePrivacyPreferences: the hSet fails when Redis is not connected.
storePrivacyPreferences(userId, preferences) ==
    /\ emitted' = <<>>
    /\ \/ /\ redisConnected
          /\ privacyPreferences' =
                [privacyPreferences EXCEPT ![userId] = PrivacyData(preferences)]
          /\ reply' = [op |-> "storePrivacyPreferences", outcome |-> "stored"]
       \/ /\ ~redisConnected
          /\ reply' = [op |-> "storePrivacyPreferences", outcome |-> "threw"]
          /\ UNCHANGED privacyPreferences
    /\ UNCHANGED <<sessionVars, now, geoVars, depVars, rateLimits,
                   livePositions, locationHistory>>

\* getPrivacyPreferences, lines 50-58: null when the read fails.
getPrivacyPreferences(userId) ==
    IF redisConnected THEN privacyPreferences[userId] ELSE Null

\* hasLocationConsent, lines 65-73.
hasLocationConsent(userId) ==
    LET preferences == getPrivacyPreferences(userId)
    IN  /\ preferences # Null
        /\ preferences.locationSharing
        /\ preferences.consentGiven

\* hashUserId, lines 114-117: a digest, never the id itself.
hashUserId(userId) == "sha256:" \o userId

\* anonymizeLocationData, lines 81-107.
anonymizeLocationData(locationData, preferences) ==
    IF preferences = Null \/ ~preferences.anonymization
        THEN locationData
        ELSE [locationData EXCEPT
                !.lat = IF Falsy(@) THEN @ ELSE RoundTwoDecimals(@),
                !.lon = IF Falsy(@) THEN @ ELSE RoundTwoDecimals(@),
                !.userId = hashUserId(@)]

----------------------------------------------------------------------------
(* SocketService: the position:update handler.                             *)

\* A variant of the limiter that lets every update through.
checkRateLimitOpen(userId) == TRUE

\* checkRateLimit, lines 304-314: whether the update is let through.
checkRateLimit(userId) ==
    ~(rateLimits[userId] # 0 /\ now - rateLimits[userId] < RateLimitMs)

\* Lines 66-73: the position object; it has lat and lon and no lng.
PositionOf(userId, data) ==
    [userId |-> userId,
     lat |-> data.lat,
     lon |-> data.lon,
     accuracy |-> NumberOrZero(data.accuracy),
     timestamp |-> data.timestamp,
     userName |-> UserName(userId)]

\* storeLocationWithAnalytics, lines 357-453: the row inserted (the derived
\* movement metrics, which nothing reads back, are left out); createdAt is
\* the insert time the model's "timestamps: true" adds.
HistoryRow(position, data) ==
    [createdAt |-> now,
     userId |-> position.userId,
     userName |-> position.userName,
     latitude |-> position.lat,
     longitude |-> position.lon,
     accuracy |-> position.accuracy,
     timestamp |-> position.timestamp,
     anonymized |-> data.anonymized]

ErrorMessage(userId, message) ==
    [room |-> "socket", userId |-> userId, event |-> "error", message |-> message]

AlertMessages(alerts) ==
    [i \in 1..Len(alerts) |->
        [room |-> "authorities", userId |-> alerts[i].userId, event |-> "alert",
         alert |-> alerts[i]]]

\* SocketService.checkGeofencing, lines 244-257.
ZoneStatusMessage(result) ==
    [room |-> "user", userId |-> result.userId, event |-> "zone_status",
     isInRestrictedZone |-> result.isInRestrictedZone,
     isInSafeZone |-> result.isInSafeZone,
     restrictedZones |-> result.restrictedZones,
     safeZones |-> result.safeZones]

\* broadcastPositionUpdate, lines 156-165.
LocationChangedMessage(position) ==
    [room |-> "watch", userId |-> position.userId, event |-> "location:changed",
     lat |-> position.lat, lon |-> position.lon,
     accuracy |-> position.accuracy, timestamp |-> position.timestamp]

\* The lng the handler's position object gives GeofencingService: the
\* object has no such property.
PositionLng(position) == Undefined

\* A variant of the rejection that comes after the hot-cache write instead
\* of before it.
RejectRateLimitedAfterStore(userId, data) ==
    /\ emitted' = <<ErrorMessage(userId, "Rate limit exceeded")>>
    /\ reply' = [op |-> "position:update", userId |-> userId,
                 outcome |-> "rate_limited"]
    /\ livePositions' = [livePositions EXCEPT ![userId] = PositionOf(userId, data)]
    /\ UNCHANGED <<sessionVars, now, geoVars, rateLimits, privacyPreferences,
                   locationHistory,
                   depVars>>

\* A variant of the rejection in which the limiter records the attempt it
\* refuses.
RejectRateLimitedAndRecorded(userId, data) ==
    /\ emitted' = <<ErrorMessage(userId, "Rate limit exceeded")>>
    /\ reply' = [op |-> "position:update", userId |-> userId,
                 outcome |-> "rate_limited"]
    /\ rateLimits' = [rateLimits EXCEPT ![userId] = now]
    /\ UNCHANGED <<sessionVars, now, geoVars, livePositions, privacyPreferences,
                   locationHistory, depVars>>

\* Lines 53-56: the update is over the rate limit; the handler answers with
\* an error event and returns.
RejectRateLimited(userId, data) ==
    /\ emitted' = <<ErrorMessage(userId, "Rate limit exceeded")>>
    /\ reply' = [op |-> "position:update", userId |-> userId,
                 outcome |-> "rate_limited"]
    /\ UNCHANGED <<sessionVars, now, geoVars, ingestVars, depVars>>

\* handlePositionUpdate(socket, data), lines 50-118.
handlePositionUpdate(userId, data) ==
    \/ /\ ~checkRateLimit(userId)
       /\ RejectRateLimited(userId, data)
    \/ /\ checkRateLimit(userId)
       /\ Falsy(data.lat) \/ Falsy(data.lon) \/ Falsy(data.timestamp)
       /\ rateLimits' = [rateLimits EXCEPT ![userId] = now]
       /\ emitted' = <<ErrorMessage(userId, "Invalid position data")>>
       /\ reply' = [op |-> "position:update", userId |-> userId,
                    outcome |-> "invalid"]
       /\ UNCHANGED <<sessionVars, now, geoVars, depVars, livePositions,
                      privacyPreferences,
                      locationHistory>>
    \/ /\ checkRateLimit(userId)
       /\ ~(Falsy(data.lat) \/ Falsy(data.lon) \/ Falsy(data.timestamp))
       /\ LET position == PositionOf(userId, data)
              result == checkGeofencing(userId, position.lat, PositionLng(position))
          IN  /\ alertCounter + Len(result.alerts) <= MaxAlerts
              /\ rateLimits' = [rateLimits EXCEPT ![userId] = now]
              /\ livePositions' =
                    IF redisConnected
                        THEN [livePositions EXCEPT ![userId] = position]
                        ELSE livePositions
              /\ locationHistory' =
                    IF postgresAvailable
                        THEN Append(locationHistory, HistoryRow(position, data))
                        ELSE locationHistory
              /\ ApplyGeofencing(result)
              /\ emitted' = AlertMessages(result.alerts)
                               \o <<ZoneStatusMessage(result),
                                    LocationChangedMessage(position)>>
              /\ reply' = [op |-> "position:update", userId |-> userId,
                           outcome |-> "accepted", position |-> position,
                           anonymized |-> data.anonymized]
       /\ UNCHANGED <<sessionVars, now, depVars, restrictedZones, safeZones,
                      zoneCounter,
                      zonesSnapshot, privacyPreferences>>

\* Inputs of position:update: a fix inside the restricted sample zone, an
\* older fix inside the safe zone only, and a message without latitude.
DataInputs ==
    {[lat |-> 286142, lon |-> 772095, accuracy |-> 10, timestamp |-> 2000,
      anonymized |-> FALSE],
     [lat |-> 286120, lon |-> 772080, accuracy |-> Undefined, timestamp |-> 1000,
      anonymized |-> TRUE],
     [lat |-> Undefined, lon |-> 772095, accuracy |-> 10, timestamp |-> 2000,
      anonymized |-> FALSE]}

PreferenceInputs ==
    {[locationSharing |-> TRUE, consentGiven |-> TRUE],
     [locationSharing |-> TRUE, consentGiven |-> FALSE]}

\* The server under position:update messages, with Redis and PostgreSQL
\* coming and going.
Next ==
    \/ \E d \in ClockSteps : Tick(d)
    \/ RedisConnectionChange
    \/ PostgresChange
    \/ \E u \in Users, d \in DataInputs : handlePositionUpdate(u, d)

Spec == Init /\ [][Next]_vars

\* The server under position:update messages and changes of the consent
\* records.
ConsentNext ==
    \/ Tick(RateLimitMs)
    \/ RedisConnectionChange
    \/ \E u \in Users, p \in PreferenceInputs : storePrivacyPreferences(u, p)
    \/ \E u \in Users, d \in DataInputs : handlePositionUpdate(u, d)

ConsentSpec == Init /\ [][ConsentNext]_vars

----------------------------------------------------------------------------
(* handlePositionUpdate as the event loop runs it: the handler runs up to  *)
(* its first await that waits for I/O, other handlers run while it is      *)
(* suspended, and it resumes when its I/O has completed.                   *)

\* Lines 50-97: rate limit, validation, the position object; hSet is issued
\* if Redis is connected, the history write is started, and the handler is
\* suspended. acceptedAt is the clock value checkRateLimit stored.
BeginPositionUpdate(userId, data) ==
    \/ /\ ~checkRateLimit(userId)
       /\ RejectRateLimited(userId, data)
    \/ /\ checkRateLimit(userId)
       /\ Falsy(data.lat) \/ Falsy(data.lon) \/ Falsy(data.timestamp)
       /\ rateLimits' = [rateLimits EXCEPT ![userId] = now]
       /\ emitted' = <<ErrorMessage(userId, "Invalid position data")>>
       /\ reply' = [op |-> "position:update", userId |-> userId,
                    outcome |-> "invalid"]
       /\ UNCHANGED <<now, geoVars, depVars, livePositions, privacyPreferences,
                      locationHistory, sessionVars>>
    \/ /\ checkRateLimit(userId)
       /\ ~(Falsy(data.lat) \/ Falsy(data.lon) \/ Falsy(data.timestamp))
       /\ rateLimits' = [rateLimits EXCEPT ![userId] = now]
       /\ livePositions' =
             IF redisConnected
                 THEN [livePositions EXCEPT ![userId] = PositionOf(userId, data)]
                 ELSE livePositions
       /\ inflight' = inflight \cup
             {[position |-> PositionOf(userId, data), data |-> data,
               acceptedAt |-> now]}
       /\ emitted' = <<>>
       /\ reply' = [op |-> "position:update", userId |-> userId,
                    outcome |-> "suspended"]
       /\ UNCHANGED <<now, geoVars, depVars, privacyPreferences,
                      locationHistory,
                      connected, rooms, positionHits, adminVars>>

\* Lines 97-111: the history write has completed (or failed); geofencing is
\* checked and the position is broadcast.
ResumePositionUpdate(handler) ==
    /\ handler \in inflight
    /\ \E result \in {checkGeofencing(handler.position.userId, handler.position.lat,
                                      PositionLng(handler.position))} :
          /\ alertCounter + Len(result.alerts) <= MaxAlerts
          /\ ApplyGeofencing(result)
          /\ emitted' = AlertMessages(result.alerts)
                           \o <<ZoneStatusMessage(result),
                                LocationChangedMessage(handler.position)>>
    /\ locationHistory' =
          IF postgresAvailable
              THEN Append(locationHistory, HistoryRow(handler.position, handler.data))
              ELSE locationHistory
    /\ inflight' = inflight \ {handler}
    /\ reply' = [op |-> "position:update", userId |-> handler.position.userId,
                 outcome |-> "accepted", position |-> handler.position,
                 anonymized |-> handler.data.anonymized]
    /\ UNCHANGED <<now, depVars, restrictedZones, safeZones, zoneCounter,
                   zonesSnapshot, rateLimits, livePositions, privacyPreferences,
                   connected, rooms, positionHits, adminVars>>

\* The server with handlers that overlap.
ConcurrentNext ==
    \/ Tick(RateLimitMs)
    \/ \E u \in Users, d \in DataInputs : BeginPositionUpdate(u, d)
    \/ \E h \in inflight : ResumePositionUpdate(h)

ConcurrentSpec == Init /\ [][ConcurrentNext]_vars

----------------------------------------------------------------------------
(* Sessions and rooms: connection, watch:start and watch:stop.             *)

\* The userId of a watch request that carries none (!userId).
NoUserId == ""

WatchRoom(userId) == "watch:" \o userId

\* setupEventHandlers, lines 23-44: the connection handler registers the
\* event handlers of the socket and joins no room.
connect(session) ==
    /\ session \notin connected
    /\ connected' = connected \cup {session}
    /\ rooms' = [rooms EXCEPT ![session] = {}]
    /\ emitted' = <<>>
    /\ reply' = [op |-> "connection", session |-> session]
    /\ UNCHANGED <<now, geoVars, ingestVars, depVars, inflight, positionHits,
                   adminVars>>

\* Lines 41-43: Socket.IO takes a socket that disconnects out of its rooms.
disconnect(session) ==
    /\ session \in connected
    /\ connected' = connected \ {session}
    /\ rooms' = [rooms EXCEPT ![session] = {}]
    /\ emitted' = <<>>
    /\ reply' = [op |-> "disconnect", session |-> session]
    /\ UNCHANGED <<now, geoVars, ingestVars, depVars, inflight, positionHits,
                   adminVars>>

\* sendCurrentPosition, lines 170-187: hGet is rejected while Redis is not
\* connected, and the catch only logs.
CurrentPositionMessages(session, userId) ==
    IF redisConnected /\ livePositions[userId] # Null
        THEN << [room |-> "socket", session |-> session, userId |-> userId,
                 event |-> "location:changed",
                 lat |-> livePositions[userId].lat,
                 lon |-> livePositions[userId].lon,
                 accuracy |-> livePositions[userId].accuracy,
                 timestamp |-> livePositions[userId].timestamp] >>
        ELSE <<>>

\* handleWatchStart, lines 123-136.
handleWatchStart(session, userId) ==
    /\ session \in connected
    /\ IF userId = NoUserId
          THEN /\ emitted' = << [room |-> "socket", session |-> session,
                                 userId |-> userId, event |-> "error",
                                 message |-> "User ID required for watching"] >>
               /\ rooms' = rooms
          ELSE /\ rooms' = [rooms EXCEPT ![session] = @ \cup {WatchRoom(userId)}]
               /\ emitted' = CurrentPositionMessages(session, userId)
    /\ reply' = [op |-> "watch:start", session |-> session, userId |-> userId]
    /\ UNCHANGED <<now, geoVars, ingestVars, depVars, connected, inflight,
                   positionHits, adminVars>>

\* handleWatchStop, lines 141-151.
handleWatchStop(session, userId) ==
    /\ session \in connected
    /\ IF userId = NoUserId
          THEN /\ emitted' = << [room |-> "socket", session |-> session,
                                 userId |-> userId, event |-> "error",
                                 message |-> "User ID required for stopping watch"] >>
               /\ rooms' = rooms
          ELSE /\ rooms' = [rooms EXCEPT ![session] = @ \ {WatchRoom(userId)}]
               /\ emitted' = <<>>
    /\ reply' = [op |-> "watch:stop", session |-> session, userId |-> userId]
    /\ UNCHANGED <<now, geoVars, ingestVars, depVars, connected, inflight,
                   positionHits, adminVars>>

\* The sessions of a room, io.to(room).
RoomMembers(room) == {s \in connected : room \in rooms[s]}

WatchInputs == {"t1", NoUserId}

\* The server with watchers: a tourist sends fixes, sessions come, watch
\* and go.
WatchNext ==
    \/ Tick(RateLimitMs)
    \/ RedisConnectionChange
    \/ \E s \in Sessions : connect(s)
    \/ \E s \in Sessions : disconnect(s)
    \/ \E s \in Sessions, u \in WatchInputs : handleWatchStart(s, u)
    \/ \E s \in Sessions, u \in WatchInputs : handleWatchStop(s, u)
    \/ \E d \in DataInputs : handlePositionUpdate("t1", d)

WatchSpec == Init /\ [][WatchNext]_vars

----------------------------------------------------------------------------
(* routes/positionRoutes.js behind positionRateLimit (server.js mounts the *)
(* limiter in front of the router). The requests come from one address, so *)
(* the limiter keeps one count; its window of PositionWindowMs is longer   *)
(* than the time the model covers, so the count is never reset.            *)

\* express-rate-limit counts the request, then refuses it when the count
\* is over the budget. The count is kept up to one over the budget.
HitCounted ==
    IF positionHits > PositionBudget THEN positionHits ELSE positionHits + 1

\* POST /api/position, lines 10-55. hSet is called without asking
\* isConnected; the client rejects a command while it is not connected, and
\* the catch answers 500.
postPosition(userId, data) ==
    /\ positionHits' = HitCounted
    /\ emitted' = <<>>
    /\ LET status ==
              IF HitCounted > PositionBudget THEN 429
              ELSE IF Falsy(data.lat) \/ Falsy(data.lon) \/ Falsy(data.timestamp)
                  THEN 400
              ELSE IF ~redisConnected THEN 500
              ELSE 200
       IN  /\ livePositions' =
                 IF status = 200
                     THEN [livePositions EXCEPT ![userId] = PositionOf(userId, data)]
                     ELSE livePositions
           /\ reply' = [op |-> "POST /position", userId |-> userId,
                        status |-> status, lat |-> data.lat, lon |-> data.lon,
                        accuracy |-> data.accuracy]
    /\ UNCHANGED <<now, geoVars, depVars, rateLimits, privacyPreferences,
                   locationHistory, connected, rooms, inflight, adminVars>>

\* GET /api/position/live, lines 61-85.
getLivePositions(role) ==
    /\ positionHits' = HitCounted
    /\ emitted' = <<>>
    /\ LET status ==
              IF HitCounted > PositionBudget THEN 429
              ELSE IF role # "authority" THEN 403
              ELSE IF ~redisConnected THEN 500
              ELSE 200
       IN  reply' = [op |-> "GET /position/live", role |-> role, status |-> status,
                     positions |-> IF status = 200
                                      THEN {livePositions[u] : u \in Users} \ {Null}
                                      ELSE {}]
    /\ UNCHANGED <<now, geoVars, ingestVars, depVars, connected, rooms,
                   inflight, adminVars>>

\* Request bodies: a fix in Delhi, a fix on the equator, a fix at
\* latitude 95, a fix with a negative accuracy.
HttpDataInputs ==
    { [lat |-> 286142, lon |-> 772095, accuracy |-> 10, timestamp |-> 2000],
      [lat |-> 0, lon |-> 772095, accuracy |-> 10, timestamp |-> 2000],
      [lat |-> 950000, lon |-> 772095, accuracy |-> 0 - 5, timestamp |-> 2000] }
RoleInputs == {"authority", "tourist"}

\* The two ingestion paths and the read of the live positions.
HttpNext ==
    \/ RedisConnectionChange
    \/ \E u \in Users, d \in HttpDataInputs : postPosition(u, d)
    \/ \E r \in RoleInputs : getLivePositions(r)
    \/ \E u \in Users, d \in DataInputs : handlePositionUpdate(u, d)

HttpSpec == Init /\ [][HttpNext]_vars

----------------------------------------------------------------------------
(* routes/geofencingRoutes.js behind geofencingRateLimit and auth: the     *)
(* zone management requests of an authenticated principal. As for          *)
(* /api/position the requests come from one address and the window of the  *)
(* limiter is longer than the time the model covers.                       *)

\* geofencingRateLimit of middleware/security.js: 20 requests per 15 min.
GeofencingBudget == 20
GeofencingWindowMs == 900000

GeofencingHitCounted ==
    IF geofencingHits > GeofencingBudget THEN geofencingHits ELSE geofencingHits + 1

\* A request body without a name (!name).
NoName == ""

\* A variant of the role test that lets every role through.
NotAuthorityNever(role) == FALSE

\* The first test of every zone management handler:
\* req.user.role !== 'authority'.
NotAuthority(role) == role # "authority"

\* The shared body of POST /zones/restricted (438-490), /zones/safe
\* (496-548) and /zones/circular (554-620) once the body has been read:
\* coordinates is the ring handed to the service, invalidBody the 400 test
\* of the handler.
PostZone(op, role, name, coordinates, type, alertLevel, invalidBody) ==
    /\ geofencingHits' = GeofencingHitCounted
    /\ emitted' = <<>>
    /\ LET status ==
              IF GeofencingHitCounted > GeofencingBudget THEN 429
              ELSE IF NotAuthority(role) THEN 403
              ELSE IF invalidBody THEN 400
              ELSE IF AddZoneThrows(coordinates) THEN 500
              ELSE 201
           zone == NewZone(zoneCounter + 1, name, coordinates, type,
                           [alertLevel |-> alertLevel])
           restricted == IF status = 201 /\ type = "restricted"
                            THEN Append(restrictedZones, zone) ELSE restrictedZones
           safe == IF status = 201 /\ type = "safe"
                      THEN Append(safeZones, zone) ELSE safeZones
       IN  /\ status = 201 => zoneCounter < MaxZones
           /\ restrictedZones' = restricted
           /\ safeZones' = safe
           /\ zonesSnapshot' = IF status = 201 THEN SavedSnapshot(restricted, safe)
                               ELSE zonesSnapshot
           /\ zoneCounter' = IF status = 201 THEN zoneCounter + 1 ELSE zoneCounter
           /\ reply' = [op |-> op, role |-> role, status |-> status,
                        zoneId |-> IF status = 201 THEN zone.id ELSE Undefined]
    /\ UNCHANGED <<now, alertHistory, touristZoneStates, alertCounter, ingestVars,
                   depVars, connected, rooms, inflight, positionHits, sosAlerts,
                   sosCounter, touristStatus, pendingLoad>>

\* POST /zones/restricted, lines 438-490.
postZonesRestricted(role, body) ==
    PostZone("POST /zones/restricted", role, body.name, body.coordinates,
             "restricted",
             IF body.alertLevel # NoLevel THEN body.alertLevel ELSE "high",
             body.name = NoName)

\* POST /zones/safe, lines 496-548.
postZonesSafe(role, body) ==
    PostZone("POST /zones/safe", role, body.name, body.coordinates, "safe",
             IF body.alertLevel # NoLevel THEN body.alertLevel ELSE "low",
             body.name = NoName)

\* POST /zones/circular, lines 554-620.
postZonesCircular(role, body) ==
    PostZone("POST /zones/circular", role, body.name,
             circle(body.center, body.radius),
             IF body.type = "restricted" THEN "restricted" ELSE "safe",
             IF body.alertLevel # NoLevel THEN body.alertLevel
             ELSE IF body.type = "restricted" THEN "high" ELSE "low",
             \/ body.name = NoName
             \/ Falsy(body.radius)
             \/ body.type \notin {"restricted", "safe"})

\* DELETE /zones/:zoneId, lines 676-715.
deleteZonesZoneId(role, zoneId) ==
    /\ geofencingHits' = GeofencingHitCounted
    /\ emitted' = <<>>
    /\ LET zone == getZoneById(zoneId)
           status ==
              IF GeofencingHitCounted > GeofencingBudget THEN 429
              ELSE IF NotAuthority(role) THEN 403
              ELSE IF zone = Null THEN 404
              ELSE 200
           restricted == IF status = 200 /\ zone.type = "restricted"
                            THEN SelectSeq(restrictedZones, LAMBDA z : z.id # zoneId)
                            ELSE restrictedZones
           safe == IF status = 200 /\ zone.type # "restricted"
                      THEN SelectSeq(safeZones, LAMBDA z : z.id # zoneId)
                      ELSE safeZones
       IN  /\ restrictedZones' = restricted
           /\ safeZones' = safe
           /\ zonesSnapshot' = IF status = 200 THEN SavedSnapshot(restricted, safe)
                               ELSE zonesSnapshot
           /\ reply' = [op |-> "DELETE /zones/:zoneId", role |-> role,
                        status |-> status, zoneId |-> zoneId]
    /\ UNCHANGED <<now, alertHistory, touristZoneStates, zoneCounter, alertCounter,
                   ingestVars, depVars, connected, rooms, inflight, positionHits,
                   sosAlerts, sosCounter, touristStatus, pendingLoad>>

\* Request bodies: a valid ring, a ring of three positions, a body without
\* a name; a circle around the centre of the sample zones, one of radius 0.
PolygonBodyInputs ==
    { [name |-> "Zone A", coordinates |-> OuterRing, alertLevel |-> NoLevel],
      [name |-> "Zone A", coordinates |-> ShortRing, alertLevel |-> NoLevel],
      [name |-> NoName, coordinates |-> OuterRing, alertLevel |-> NoLevel] }
CircleBodyInputs ==
    { [name |-> "Zone A", center |-> DelhiSafeCenter, radius |-> DelhiSafeRadius,
       type |-> "restricted", alertLevel |-> NoLevel],
      [name |-> "Zone A", center |-> DelhiSafeCenter, radius |-> 0,
       type |-> "safe", alertLevel |-> NoLevel] }

\* The zone management requests of authorities and tourists, before and
\* after the Redis client has connected.
ZoneRoutesNext ==
    \/ RedisConnect
    \/ \E r \in RoleInputs, b \in PolygonBodyInputs : postZonesRestricted(r, b)
    \/ \E r \in RoleInputs, b \in PolygonBodyInputs : postZonesSafe(r, b)
    \/ \E r \in RoleInputs, b \in CircleBodyInputs : postZonesCircular(r, b)
    \/ \E r \in RoleInputs, z \in ZoneIdInputs : deleteZonesZoneId(r, z)

ZoneRoutesSpec == Init /\ [][ZoneRoutesNext]_vars

----------------------------------------------------------------------------
(* controllers/sosController.js: the SOS documents and the status of the   *)
(* tourist profiles, both in MongoDB (which is available throughout).      *)

\* SOS.findById: the documents with the id (at most one).
SosById(sosId) == SelectSeq(sosAlerts, LAMBDA d : d.id = sosId)

\* createSOS, lines 4-35. Tourist.findOne finds the profile of every user of
\* the model and of no other id.
createSOS(touristId) ==
    /\ sosCounter < MaxSos
    /\ emitted' = <<>>
    /\ IF touristId \notin Users
          THEN /\ reply' = [op |-> "createSOS", status |-> 404, sosId |-> Undefined]
               /\ UNCHANGED <<sosAlerts, sosCounter, touristStatus>>
          ELSE /\ sosAlerts' = Append(sosAlerts,
                      [id |-> sosCounter + 1, touristId |-> touristId,
                       status |-> "active"])
               /\ sosCounter' = sosCounter + 1
               /\ touristStatus' = [touristStatus EXCEPT ![touristId] = "sos"]
               /\ reply' = [op |-> "createSOS", status |-> 201,
                            sosId |-> sosCounter + 1]
    /\ UNCHANGED <<now, geoVars, ingestVars, depVars, connected, rooms, inflight,
                   positionHits, geofencingHits, pendingLoad>>

\* respondToSOS, lines 52-71: findByIdAndUpdate changes the document with
\* the id, if there is one; the answer is 200 either way.
respondToSOS(sosId) ==
    /\ emitted' = <<>>
    /\ sosAlerts' = [i \in 1..Len(sosAlerts) |->
                        IF sosAlerts[i].id = sosId
                            THEN [sosAlerts[i] EXCEPT !.status = "responded"]
                            ELSE sosAlerts[i]]
    /\ reply' = [op |-> "respondToSOS", status |-> 200, sosId |-> sosId]
    /\ UNCHANGED <<now, geoVars, ingestVars, depVars, connected, rooms, inflight,
                   positionHits, geofencingHits, sosCounter, touristStatus,
                   pendingLoad>>

\* deleteSOS, lines 74-112.
deleteSOS(sosId) ==
    /\ emitted' = <<>>
    /\ IF SosById(sosId) = <<>>
          THEN /\ reply' = [op |-> "deleteSOS", status |-> 404, sosId |-> sosId]
               /\ UNCHANGED <<sosAlerts, touristStatus>>
          ELSE /\ sosAlerts' = SelectSeq(sosAlerts, LAMBDA d : d.id # sosId)
               /\ touristStatus' =
                     [touristStatus EXCEPT ![SosById(sosId)[1].touristId] = "safe"]
               /\ reply' = [op |-> "deleteSOS", status |-> 200, sosId |-> sosId]
    /\ UNCHANGED <<now, geoVars, ingestVars, depVars, connected, rooms, inflight,
                   positionHits, geofencingHits, sosCounter, pendingLoad>>

\* touristId of the request bodies: the two tourists and an id without a
\* tourist profile.
SosTouristInputs == Users \cup {"t9"}
SosIdInputs == 1..(MaxSos + 1)

\* The SOS requests.
SosNext ==
    \/ \E t \in SosTouristInputs : createSOS(t)
    \/ \E i \in SosIdInputs : respondToSOS(i)
    \/ \E i \in SosIdInputs : deleteSOS(i)

SosSpec == Init /\ [][SosNext]_vars

----------------------------------------------------------------------------
(* Startup: server.js builds the SocketService while it is loaded, and the *)
(* constructor calls initializeGeofencing. A restart of the process keeps  *)
(* what Redis, PostgreSQL and MongoDB hold and loses what is in memory.    *)

\* redisClient.isConnected() when the constructor runs: config/redis.js has
\* called connect() in the same turn of the event loop, and the flag is set
\* by the 'connect' event, which a later turn delivers.
ConnectedAtConstruction == FALSE

\* loadZonesFromRedis, lines 391-397, once get has resolved with zonesData:
\* the zones of the snapshot replace the ones in memory. JSON.stringify and
\* JSON.parse give back the id, name, coordinates, type, alertLevel and
\* isActive of a zone as they were (strings, numbers and booleans).
LoadedZones(zonesData, restricted, safe) ==
    IF zonesData # Null
        THEN [restricted |-> zonesData.restricted, safe |-> zonesData.safe]
        ELSE [restricted |-> restricted, safe |-> safe]

\* initializeGeofencing, lines 192-226, on the empty registry of the
\* constructor: the load, which reads only if the client is connected, and
\* then the two sample zones if no restricted zone is registered. first is
\* the number of zone ids handed out before.
InitializedZones(isConnected, first) ==
    LET loaded == IF isConnected
                      THEN LoadedZones(zonesSnapshot, <<>>, <<>>)
                      ELSE [restricted |-> <<>>, safe |-> <<>>]
    IN  IF loaded.restricted = <<>>
            THEN [restricted |->
                      << NewZone(first + 1, "Delhi Restricted Area",
                                 DelhiRestrictedArea, "restricted",
                                 [alertLevel |-> "high"]) >>,
                  safe |->
                      Append(loaded.safe,
                             NewZone(first + 2, "Delhi Safe Zone",
                                     circle(DelhiSafeCenter, DelhiSafeRadius),
                                     "safe", [alertLevel |-> "low"]))]
            ELSE loaded

\* The process is started again: new SocketService(io) with its
\* GeofencingService, a Redis client that has not connected yet and
\* limiters without counts. The sample zones are saved only if the client
\* is connected (saveZonesToRedis).
Restart ==
    /\ zoneCounter <= MaxZones
    /\ LET zones == InitializedZones(ConnectedAtConstruction, zoneCounter)
           added == Len(zones.restricted) + Len(zones.safe)
                       - (IF ConnectedAtConstruction /\ zonesSnapshot # Null
                              THEN Len(zonesSnapshot.restricted)
                                      + Len(zonesSnapshot.safe)
                              ELSE 0)
       IN  /\ restrictedZones' = zones.restricted
           /\ safeZones' = zones.safe
           /\ zoneCounter' = zoneCounter + added
           /\ zonesSnapshot' = IF ConnectedAtConstruction /\ added > 0
                                   THEN [restricted |-> zones.restricted,
                                         safe |-> zones.safe]
                                   ELSE zonesSnapshot
    /\ redisConnected' = ConnectedAtConstruction
    /\ alertHistory' = <<>>
    /\ touristZoneStates' = [u \in Users |-> Null]
    /\ rateLimits' = [u \in Users |-> 0]
    /\ connected' = {}
    /\ rooms' = [s \in Sessions |-> {}]
    /\ inflight' = {}
    /\ positionHits' = 0
    /\ geofencingHits' = 0
    /\ pendingLoad' = <<>>
    /\ emitted' = <<>>
    /\ reply' = [op |-> "startup"]
    /\ UNCHANGED <<now, postgresAvailable, alertCounter, livePositions,
                   privacyPreferences, locationHistory, sosAlerts, sosCounter,
                   touristStatus>>

\* The server with zones created and deleted by authorities, Redis coming
\* and going, and restarts of the process.
StartupNext ==
    \/ RedisConnectionChange
    \/ \E b \in PolygonBodyInputs : postZonesRestricted("authority", b)
    \/ \E b \in PolygonBodyInputs : postZonesSafe("authority", b)
    \/ \E z \in ZoneIdInputs : deleteZonesZoneId("authority", z)
    \/ Restart

StartupSpec == Init /\ [][StartupNext]_vars

----------------------------------------------------------------------------
(* GeofencingService.loadZonesFromRedis as the event loop runs it when the *)
(* client is connected: the method issues get and is suspended, other      *)
(* calls of the service run, and the method resumes with what get read.    *)

\* Lines 387-391: isConnected is asked and get is issued; Redis serves the
\* commands of the connection in order, so get reads the snapshot stored at
\* this moment. A client that is not connected is not asked (line 390).
BeginLoadZones ==
    /\ Len(pendingLoad) < MaxPendingLoads
    /\ IF redisConnected
          THEN /\ pendingLoad' = Append(pendingLoad, zonesSnapshot)
               /\ reply' = [op |-> "loadZonesFromRedis", outcome |-> "reading"]
          ELSE /\ pendingLoad' = pendingLoad
               /\ reply' = [op |-> "loadZonesFromRedis", outcome |-> "skipped"]
    /\ emitted' = <<>>
    /\ UNCHANGED <<now, geoVars, ingestVars, depVars, connected, rooms, inflight,
                   positionHits, geofencingHits, sosAlerts, sosCounter,
                   touristStatus>>

\* Lines 391-401: get has resolved, and the zones it read replace the ones
\* in memory; if the connection has ended meanwhile get is rejected and the
\* catch logs.
CompleteLoadZones ==
    /\ pendingLoad # <<>>
    /\ LET loaded == IF redisConnected
                         THEN LoadedZones(Head(pendingLoad), restrictedZones,
                                          safeZones)
                         ELSE [restricted |-> restrictedZones, safe |-> safeZones]
       IN  /\ restrictedZones' = loaded.restricted
           /\ safeZones' = loaded.safe
    /\ pendingLoad' = Tail(pendingLoad)
    /\ emitted' = <<>>
    /\ reply' = [op |-> "loadZonesFromRedis",
                 outcome |-> IF ~redisConnected THEN "failed"
                             ELSE IF Head(pendingLoad) = Null THEN "nothing stored"
                             ELSE "loaded"]
    /\ UNCHANGED <<now, alertHistory, touristZoneStates, zoneCounter, alertCounter,
                   zonesSnapshot, ingestVars, depVars, connected, rooms, inflight,
                   positionHits, geofencingHits, sosAlerts, sosCounter,
                   touristStatus>>

\* The service under additions and deletions of zones while the snapshot is
\* loaded, with snapshot writes that are skipped while Redis is away.
SnapshotNext ==
    \/ RedisConnectionChange
    \/ \E n \in ZoneNames, o \in OptionInputs : addRestrictedZone(n, OuterRing, o)
    \/ \E z \in ZoneIdInputs : deleteZone(z)
    \/ BeginLoadZones
    \/ CompleteLoadZones

SnapshotSpec == Init /\ [][SnapshotNext]_vars

----------------------------------------------------------------------------
(* Properties of the geofence evaluation, checked under GeofencingSpec.    *)

\* C1: every geofence_breach alert for a tourist and a restricted zone comes
\* from a fix inside that zone while the tourist's previously recorded
\* membership did not contain the zone; no breach alert is produced for a
\* zone the tourist was already recorded inside.
C1_BreachOnlyOnEnter ==
    reply.op = "checkGeofencing" =>
        \A i \in 1..Len(reply.result.alerts) :
            LET alert == reply.result.alerts[i]
            IN  alert.type = "geofence_breach" =>
                    /\ alert.zoneId \in SeqToSet(reply.result.restrictedZones)
                    /\ \/ reply.previousState = Null
                       \/ alert.zoneId \notin
                              SeqToSet(reply.previousState.restrictedZones)

\* C7: no two alerts with the same tourist, type and zone are generated
\* within 2 seconds of each other.
C7_NoDuplicateWithinTwoSeconds ==
    \A i, j \in 1..Len(alertHistory) :
        (/\ i < j
         /\ alertHistory[i].userId = alertHistory[j].userId
         /\ alertHistory[i].type = alertHistory[j].type
         /\ alertHistory[i].zoneId = alertHistory[j].zoneId)
            => \/ alertHistory[j].timestamp - alertHistory[i].timestamp > 2000
               \/ alertHistory[i].timestamp - alertHistory[j].timestamp > 2000

\* C8: an evaluation of a fix for a tourist produces a safe_zone_exit alert
\* of level "medium" exactly when the fix lies inside no active safe zone and
\* the state previously recorded for the tourist was inside at least one;
\* the alert is the last one pushed on the alert history.
C8_SafeZoneExitAlert ==
    reply.op = "checkGeofencing" =>
        LET result == reply.result
            previous == reply.previousState
            exits == SelectSeq(result.alerts,
                               LAMBDA a : a.type = "safe_zone_exit")
            insideSafe == \E i \in 1..Len(safeZones) :
                              /\ safeZones[i].isActive
                              /\ booleanPointInPolygon(<<result.lng, result.lat>>,
                                                       safeZones[i].coordinates)
            wasInsideSafe == /\ previous # Null
                             /\ previous.safeZones # <<>>
        IN  /\ Len(exits) = IF wasInsideSafe /\ ~insideSafe THEN 1 ELSE 0
            /\ \A i \in 1..Len(exits) :
                  /\ exits[i].alertLevel = "medium"
                  /\ exits[i].userId = result.userId
                  /\ alertHistory # <<>>
                  /\ alertHistory[Len(alertHistory)] = exits[i]

\* C8 happens: a tourist recorded inside a safe zone is evaluated at a fix
\* inside none, and the exit alert is produced.
C8_Witness ==
    /\ reply.op = "checkGeofencing"
    /\ reply.previousState # Null
    /\ reply.previousState.safeZones # <<>>
    /\ reply.result.safeZones = <<>>
    /\ \E i \in 1..Len(reply.result.alerts) :
          reply.result.alerts[i].type = "safe_zone_exit"

\* C9: the alert history never holds more than its capacity, and once it is
\* full it holds exactly the most recently generated alerts, whatever reads
\* come in between.
C9_HistoryHoldsMostRecent ==
    /\ Len(alertHistory) <= AlertHistoryCap
    /\ {alertHistory[i].id : i \in 1..Len(alertHistory)} =
          {n \in 1..alertCounter : n > alertCounter - AlertHistoryCap}

----------------------------------------------------------------------------
(* Properties of the position:update handler, checked under Spec and, for  *)
(* consent, under ConsentSpec.                                             *)

\* C2: a location update of a tourist who has no consent record, or whose
\* record has location sharing or consent false, is not accepted.
C2_NoConsentNoProcessing ==
    (reply.op = "position:update" /\ reply.outcome = "accepted")
        => hasLocationConsent(reply.userId)

\* C3: an update is refused for its rate only when the tourist already has
\* the whole budget of 20 accepted updates in the preceding 60 seconds.
C3_BudgetOfTwentyPerMinute ==
    (reply.op = "position:update" /\ reply.outcome = "rate_limited") =>
        Cardinality({i \in 1..Len(locationHistory) :
                        /\ locationHistory[i].userId = reply.userId
                        /\ now - locationHistory[i].createdAt < PositionWindowMs})
            >= PositionBudget

\* C4, as stated: a rate-limited update produces no outbound message at all.
C4_DropIsSilent ==
    (reply.op = "position:update" /\ reply.outcome = "rate_limited")
        => emitted = <<>>

\* C4: an update that arrives inside the tourist's rate-limit window is
\* rejected; it leaves the history rows, the hot cache, the alert history
\* and the zone states as they were, and the only message it produces is the
\* error event to the sender's own socket.
C4_DropChangesNothing ==
    [][ \A u \in Users :
          (/\ reply'.op = "position:update"
           /\ reply'.userId = u
           /\ rateLimits[u] # 0
           /\ now - rateLimits[u] < RateLimitMs)
              => /\ reply'.outcome = "rate_limited"
                 /\ locationHistory' = locationHistory
                 /\ livePositions' = livePositions
                 /\ alertHistory' = alertHistory
                 /\ touristZoneStates' = touristZoneStates
                 /\ Len(emitted') = 1
                 /\ emitted'[1].event = "error"
                 /\ emitted'[1].room = "socket"
                 /\ emitted'[1].userId = u ]_vars

\* C4 happens: an update of a tourist with a cached position and a stored
\* row has just been rejected for its rate.
C4_Witness ==
    /\ reply.op = "position:update"
    /\ reply.outcome = "rate_limited"
    /\ livePositions[reply.userId] # Null
    /\ \E i \in 1..Len(locationHistory) :
          locationHistory[i].userId = reply.userId

\* C5: the accepted fixes of a tourist have non-decreasing client
\* timestamps, in the order the server accepted them.
C5_TimestampsNeverGoBack ==
    \A i, j \in 1..Len(locationHistory) :
        (i < j /\ locationHistory[i].userId = locationHistory[j].userId)
            => locationHistory[i].timestamp <= locationHistory[j].timestamp

\* C6: after an accepted fix the zone state recorded for the tourist is the
\* set of active zones that contain the fix.
C6_ZoneStateFollowsFix ==
    (reply.op = "position:update" /\ reply.outcome = "accepted") =>
        LET state == touristZoneStates[reply.userId]
            lat == reply.position.lat
            lng == reply.position.lon
        IN  /\ state # Null
            /\ state.restrictedZones = ZoneIds(checkRestrictedZones(lat, lng))
            /\ state.safeZones = ZoneIds(checkSafeZones(lat, lng))

\* C10: a history row marked anonymized has its coordinates rounded to two
\* decimal places and does not carry the tourist's cleartext identifier.
C10_AnonymizedRowsAreAnonymous ==
    \A i \in 1..Len(locationHistory) :
        locationHistory[i].anonymized =>
            /\ locationHistory[i].latitude =
                  RoundTwoDecimals(locationHistory[i].latitude)
            /\ locationHistory[i].longitude =
                  RoundTwoDecimals(locationHistory[i].longitude)
            /\ locationHistory[i].userId \notin Users

----------------------------------------------------------------------------
(* Properties of the two ingestion paths and of the reads of the live      *)
(* positions, checked under HttpSpec.                                      *)

\* C11: a valid fix that is within its rate limit is accepted on either
\* path whatever the state of the hot cache and of the history store (200 on
\* the HTTP path), and its location:changed is emitted.
C11_DependencyFailureNeverRejects ==
    /\ (reply.op = "position:update" /\ reply.outcome = "accepted") =>
          \E i \in 1..Len(emitted) :
              /\ emitted[i].event = "location:changed"
              /\ emitted[i].userId = reply.userId
    /\ (reply.op = "POST /position" /\ reply.status \notin {400, 429}) =>
          /\ reply.status = 200
          /\ \E i \in 1..Len(emitted) :
                /\ emitted[i].event = "location:changed"
                /\ emitted[i].userId = reply.userId

\* C19: GET /position/live by an authority returns a position for every
\* tourist with an accepted fix (here: with a history row), Redis connected
\* or not; another caller gets 403 and no positions.
C19_LiveReturnsEveryLatestFix ==
    (reply.op = "GET /position/live" /\ reply.status # 429) =>
        IF reply.role = "authority"
            THEN \A u \in Users :
                    (\E i \in 1..Len(locationHistory) : locationHistory[i].userId = u)
                        => \E p \in reply.positions : p.userId = u
            ELSE reply.status = 403 /\ reply.positions = {}

\* C20: a fix passes validation exactly when its latitude is in [-90, 90],
\* its longitude in [-180, 180] and its accuracy, if given, not negative
\* (all the fixes sent carry a timestamp).
C20_ValidationByRange ==
    LET InRange(lat, lon, accuracy) ==
            /\ lat >= 0 - 900000 /\ lat <= 900000
            /\ lon >= 0 - 1800000 /\ lon <= 1800000
            /\ accuracy = Undefined \/ accuracy >= 0
    IN  /\ (reply.op = "POST /position" /\ reply.status # 429) =>
              (reply.status # 400 <=> InRange(reply.lat, reply.lon, reply.accuracy))
        /\ (reply.op = "position:update" /\ reply.outcome = "accepted") =>
              InRange(reply.position.lat, reply.position.lon,
                      reply.position.accuracy)

----------------------------------------------------------------------------
(* Properties of what the position:update handler emits, checked under     *)
(* Spec.                                                                   *)

----------------------------------------------------------------------------
(* Properties of overlapping handlers, checked under ConcurrentSpec.       *)

\* C13: the location:changed of a tourist's fix is never broadcast while a
\* fix of the same tourist that the server accepted earlier is still
\* waiting to be broadcast.
C13_BroadcastInAcceptanceOrder ==
    [][ \A h \in inflight :
            h \notin inflight' =>
                ~\E g \in inflight :
                    /\ g.position.userId = h.position.userId
                    /\ g.acceptedAt < h.acceptedAt ]_vars

----------------------------------------------------------------------------
(* Properties of the sessions and their rooms, checked under WatchSpec.    *)

\* C14: a watch:start for a tourist who has an accepted fix is answered
\* with a location:changed that carries the tourist's most recently accepted
\* fix, whether Redis is connected or not.
C14_WatchStartSendsLatestFix ==
    (reply.op = "watch:start" /\ reply.userId \in Users) =>
        LET rows == SelectSeq(locationHistory,
                              LAMBDA r : r.userId = reply.userId)
            latest == rows[Len(rows)]
        IN  rows # <<>> =>
                \E i \in 1..Len(emitted) :
                    /\ emitted[i].event = "location:changed"
                    /\ emitted[i].session = reply.session
                    /\ emitted[i].userId = reply.userId
                    /\ emitted[i].lat = latest.latitude
                    /\ emitted[i].lon = latest.longitude
                    /\ emitted[i].timestamp = latest.timestamp

\* C15: every connected session of an authority is in the room
\* 'authorities', the room the alerts are emitted to.
C15_AuthoritiesReceiveAlerts ==
    \A s \in connected :
        SessionRole(s) = "authority" => s \in RoomMembers("authorities")

----------------------------------------------------------------------------
(* Properties of the zone registry, checked under ZoneRegistrySpec.        *)

\* C16: an attempt to add a zone whose polygon the service refuses is
\* answered with status 400 and returns no zone.
C16_InvalidPolygonIsBadRequest ==
    (/\ reply.op \in {"addRestrictedZone", "addSafeZone", "addCircularZone"}
     /\ reply.outcome = "threw")
        => /\ reply.status = 400
           /\ reply.zoneId = Undefined

\* C17: updateZone leaves the id, the variant and the geometry of every
\* zone as they were.
C17_UpdateKeepsIdentityAndGeometry ==
    [][ reply'.op = "updateZone" =>
            /\ Len(restrictedZones') = Len(restrictedZones)
            /\ Len(safeZones') = Len(safeZones)
            /\ \A i \in 1..Len(restrictedZones) :
                  /\ restrictedZones'[i].id = restrictedZones[i].id
                  /\ restrictedZones'[i].type = restrictedZones[i].type
                  /\ restrictedZones'[i].coordinates = restrictedZones[i].coordinates
            /\ \A i \in 1..Len(safeZones) :
                  /\ safeZones'[i].id = safeZones[i].id
                  /\ safeZones'[i].type = safeZones[i].type
                  /\ safeZones'[i].coordinates = safeZones[i].coordinates ]_vars

----------------------------------------------------------------------------
(* Properties of evaluations after a deletion, checked under DeletionSpec. *)

\* C18: when a zone was deleted while the tourist was recorded inside it,
\* the tourist's next fix outside the geometry the zone had produces exactly
\* one exit alert for that zone: for a restricted zone an alert that names
\* the zone, for a safe zone a safe_zone_exit.
C18_DeletionExitOnNextFix ==
    (reply.op = "checkGeofencing" /\ reply.previousState # Null) =>
        LET result == reply.result
            registered == {AllZones[i].id : i \in 1..Len(AllZones)}
            geometry(z) == IF z = SampleRestrictedZone.id
                               THEN SampleRestrictedZone.coordinates
                               ELSE SampleSafeZone.coordinates
            outside(z) == ~booleanPointInPolygon(<<result.lng, result.lat>>,
                                                 geometry(z))
            alertsNaming(z) ==
                {i \in 1..Len(result.alerts) :
                    /\ result.alerts[i].type # "geofence_breach"
                    /\ result.alerts[i].zoneId = z}
            safeExits == {i \in 1..Len(result.alerts) :
                             result.alerts[i].type = "safe_zone_exit"}
        IN  /\ \A z \in SeqToSet(reply.previousState.restrictedZones) :
                  (z \notin registered /\ outside(z))
                      => Cardinality(alertsNaming(z)) = 1
            /\ \A z \in SeqToSet(reply.previousState.safeZones) :
                  (z \notin registered /\ outside(z))
                      => Cardinality(safeExits) = 1


----------------------------------------------------------------------------
(* Properties of the zone management requests, checked under               *)
(* ZoneRoutesSpec.                                                         *)

\* C21: a request to create a zone (restricted, safe or circular) or to
\* delete a zone made by a principal whose role is not authority leaves the
\* zone registry and its snapshot unchanged, and it is answered with 403
\* unless the rate limiter in front of the router has already refused it.
C21_NonAuthorityIsForbidden ==
    [][ (/\ reply'.op \in {"POST /zones/restricted", "POST /zones/safe",
                           "POST /zones/circular", "DELETE /zones/:zoneId"}
         /\ reply'.role # "authority")
            => /\ restrictedZones' = restrictedZones
               /\ safeZones' = safeZones
               /\ zonesSnapshot' = zonesSnapshot
               /\ zoneCounter' = zoneCounter
               /\ reply'.status \in {403, 429}
               /\ reply'.status = 429 <=> geofencingHits >= GeofencingBudget ]_vars

\* C21 happens: a tourist asked to delete a zone that is registered and was
\* answered 403.
C21_Witness ==
    /\ reply.op = "DELETE /zones/:zoneId"
    /\ reply.role = "tourist"
    /\ reply.status = 403
    /\ getZoneById(reply.zoneId) # Null

----------------------------------------------------------------------------
(* Properties of the watchers, checked under WatchSpec.                    *)

\* C22: a session whose role is not authority is never a member of the
\* watch room of another tourist, and no location:changed about another
\* tourist is ever sent to such a session.
C22_OnlyAuthoritiesWatch ==
    LET Others(s) == {u \in Users : u # SessionUser(s)}
        Recipients(m) == IF m.room = "watch"
                             THEN RoomMembers(WatchRoom(m.userId))
                             ELSE {m.session}
    IN  /\ \A s \in connected :
              SessionRole(s) # "authority" =>
                  \A u \in Others(s) : WatchRoom(u) \notin rooms[s]
        /\ \A i \in 1..Len(emitted) :
              emitted[i].event = "location:changed" =>
                  \A s \in Recipients(emitted[i]) :
                      SessionRole(s) # "authority" =>
                          emitted[i].userId \notin Others(s)

----------------------------------------------------------------------------
(* The two ingestion paths compared, checked under HttpSpec (PostgreSQL is *)
(* available throughout).                                                  *)

\* C23: a fix accepted through POST /position has the effects the
\* position:update handler has for an accepted fix: a history row with the
\* fix is appended, and a zone_status and a location:changed of the tourist
\* are emitted.
C23_HttpPathHasSocketPathEffects ==
    LET Effects(userId, lat, lon) ==
            /\ \E i \in 1..Len(locationHistory) :
                  /\ locationHistory[i].userId = userId
                  /\ locationHistory[i].latitude = lat
                  /\ locationHistory[i].longitude = lon
            /\ \E i \in 1..Len(emitted) :
                  /\ emitted[i].event = "zone_status"
                  /\ emitted[i].userId = userId
            /\ \E i \in 1..Len(emitted) :
                  /\ emitted[i].event = "location:changed"
                  /\ emitted[i].userId = userId
                  /\ emitted[i].lat = lat
                  /\ emitted[i].lon = lon
    IN  /\ (reply.op = "position:update" /\ reply.outcome = "accepted") =>
              Effects(reply.userId, reply.position.lat, reply.position.lon)
        /\ (reply.op = "POST /position" /\ reply.status = 200) =>
              Effects(reply.userId, reply.lat, reply.lon)

----------------------------------------------------------------------------
(* Properties of the rate limiter of the position:update handler, checked  *)
(* under Spec.                                                             *)

\* C24: an update of a user is accepted only when the limiter holds no time
\* for that user or one at least 5000 ms old, and the limiter then holds the
\* time of the acceptance; the time the limiter holds for a user changes
\* only by an update of that user, to the current time; an update is refused
\* for its rate only while the user's own time is less than 5000 ms old; so
\* the history rows of one user are at least 5000 ms apart by server time.
C24_OneAcceptedPerFiveSeconds ==
    [][ /\ \A u \in Users :
              /\ (/\ reply'.op = "position:update"
                  /\ reply'.userId = u
                  /\ reply'.outcome = "accepted")
                     => /\ rateLimits[u] = 0 \/ now - rateLimits[u] >= RateLimitMs
                        /\ rateLimits'[u] = now
              /\ (/\ reply'.op = "position:update"
                  /\ reply'.userId = u
                  /\ reply'.outcome = "rate_limited")
                     => /\ rateLimits[u] # 0
                        /\ now - rateLimits[u] < RateLimitMs
              /\ rateLimits'[u] # rateLimits[u]
                     => /\ reply'.op = "position:update"
                        /\ reply'.userId = u
                        /\ rateLimits'[u] = now
        /\ \A i, j \in 1..Len(locationHistory') :
              (/\ i < j
               /\ locationHistory'[i].userId = locationHistory'[j].userId)
                  => locationHistory'[j].createdAt - locationHistory'[i].createdAt
                         >= RateLimitMs ]_vars

\* C24 happens: a user is accepted for the second time, 5000 ms after the
\* first, while another user is inside the 5000 ms after an acceptance.
C24_Witness ==
    /\ reply.op = "position:update"
    /\ reply.outcome = "accepted"
    /\ \E v \in Users \ {reply.userId} :
          /\ rateLimits[v] # 0
          /\ now - rateLimits[v] < RateLimitMs
    /\ \E i, j \in 1..Len(locationHistory) :
          /\ i < j
          /\ locationHistory[i].userId = reply.userId
          /\ locationHistory[j].userId = reply.userId
          /\ locationHistory[j].createdAt = now
          /\ locationHistory[i].createdAt = now - RateLimitMs

\* C30: an update refused by the rate limiter leaves the times the limiter
\* holds as they were, and an update of a user for whom the limiter holds no
\* time, or a time at least 5000 ms old, is not refused for its rate.
C30_RejectionNeverExtendsTheWait ==
    [][ \A u \in Users :
          (reply'.op = "position:update" /\ reply'.userId = u) =>
              /\ reply'.outcome = "rate_limited" => rateLimits' = rateLimits
              /\ (rateLimits[u] = 0 \/ now - rateLimits[u] >= RateLimitMs)
                    => reply'.outcome # "rate_limited" ]_vars

\* C30 happens: an update has just been refused in the middle of the window
\* of its user, and the limiter still holds the time of 2500 ms ago.
C30_Witness ==
    /\ reply.op = "position:update"
    /\ reply.outcome = "rate_limited"
    /\ now - rateLimits[reply.userId] = 2500

----------------------------------------------------------------------------
(* Properties of the SOS requests, checked under SosSpec.                  *)

\* C25: the status of a tourist is "sos" exactly when an SOS document of
\* that tourist with status "active" exists.
C25_SosStatusIffActiveRecord ==
    \A u \in Users :
        touristStatus[u] = "sos" <=>
            \E i \in 1..Len(sosAlerts) :
                /\ sosAlerts[i].touristId = u
                /\ sosAlerts[i].status = "active"

----------------------------------------------------------------------------
(* Properties of the startup, checked under StartupSpec.                   *)

\* C26: after a start of the process the zone registry holds the zones of
\* the persisted snapshot if one is stored, and no zone at all if none is.
C26_StartupRestoresSnapshot ==
    reply.op = "startup" =>
        IF zonesSnapshot # Null
            THEN /\ restrictedZones = zonesSnapshot.restricted
                 /\ safeZones = zonesSnapshot.safe
            ELSE /\ restrictedZones = <<>>
                 /\ safeZones = <<>>

----------------------------------------------------------------------------
(* Properties of the reads of the alert history, checked under             *)
(* GeofencingSpec.                                                         *)

\* C27: getRecentAlerts(limit) returns the stored alerts newest first, cut
\* to limit, and leaves the alert history, contents and order, as it was.
C27_RecentAlertsIsPureRead ==
    [][ reply'.op = "getRecentAlerts" =>
            LET returned == reply'.alerts
                left == SeqToSet(alertHistory) \ SeqToSet(returned)
            IN  /\ alertHistory' = alertHistory
                /\ Len(returned) = IF Len(alertHistory) < reply'.limit
                                       THEN Len(alertHistory) ELSE reply'.limit
                /\ SeqToSet(returned) \subseteq SeqToSet(alertHistory)
                /\ \A i, j \in 1..Len(returned) :
                      i < j => returned[i].timestamp >= returned[j].timestamp
                /\ \A a \in left : \A i \in 1..Len(returned) :
                      returned[i].timestamp >= a.timestamp ]_vars

----------------------------------------------------------------------------
(* Properties of deletions after updates, checked under LifecycleSpec.     *)

\* C28: when deleteZone(id) has returned true, no zone with that id is in
\* the restricted or the safe set, and the evaluation that follows records
\* no fix inside that zone and raises no alert for it.
C28_DeletedZoneIsGone ==
    [][ /\ (reply'.op = "deleteZone" /\ reply'.outcome = "true") =>
              /\ \A i \in 1..Len(restrictedZones') :
                    restrictedZones'[i].id # reply'.zoneId
              /\ \A i \in 1..Len(safeZones') :
                    safeZones'[i].id # reply'.zoneId
        /\ (/\ reply.op = "deleteZone"
            /\ reply.outcome = "true"
            /\ reply'.op = "checkGeofencing") =>
              /\ reply.zoneId \notin SeqToSet(reply'.result.restrictedZones)
              /\ reply.zoneId \notin SeqToSet(reply'.result.safeZones)
              /\ \A i \in 1..Len(reply'.result.alerts) :
                    reply'.result.alerts[i].zoneId # reply.zoneId ]_vars

----------------------------------------------------------------------------
(* Properties of the registry while the snapshot is loaded, checked under  *)
(* SnapshotSpec.                                                           *)

====
